---- MODULE Spec2Model ----
(***************************************************************************)
(* A model of griptape's Stream bridge (griptape/utils/stream.py), of the   *)
(* AmazonRedshiftSqlDriver (griptape/drivers/sql/                          *)
(* amazon_redshift_sql_driver.py), of the                                  *)
(* AmazonBedrockImageGenerationDriver (griptape/drivers/image_generation/  *)
(* amazon_bedrock_image_generation_driver.py) and of the                   *)
(* ImageGenerationEngine (griptape/engines/image/                          *)
(* image_generation_engine.py).                                            *)
(*                                                                         *)
(* Stream (StreamSpec, and StreamLive with the threads scheduled): one     *)
(* Stream object wrapping one Structure.  Stream.run is a generator; every *)
(* invocation r starts a producer thread that runs _run_structure, and the *)
(* invoking thread consumes the Stream object's single _event_queue.  The  *)
(* structure is the environment: inside structure.run it publishes events  *)
(* to its listeners, and then returns or raises.                           *)
(*                                                                         *)
(* AmazonRedshiftSqlDriver (RedshiftSpec, and RedshiftLive with the        *)
(* driver's thread scheduled): one construction and one execute_query.     *)
(* The Redshift Data API is the environment: it reports the statuses and   *)
(* serves the pages of the result.                                         *)
(*                                                                         *)
(* AmazonBedrockImageGenerationDriver (BedrockSpec): one                   *)
(* try_generate_image.  The Bedrock runtime is the environment: its        *)
(* invoke_model raises or returns a body.                                  *)
(*                                                                         *)
(* ImageGenerationEngine (EngineSpec): a caller that calls the engine's    *)
(* operations repeatedly with the same list objects and rulesets.          *)
(***************************************************************************)
EXTENDS Integers, Sequences, FiniteSets, TLC

\* ------------------------------------------------------------------ bounds
\* Number of invocations of Stream.run on the one Stream object.
MaxRuns == 2
\* Number of events the structure publishes over all its runs.
MaxEmit == 3
\* Number of pages a statement's result is split over.
MaxPages == 2
\* Number of records on a page.
MaxRecs == 1
\* Number of describe_statement calls that are counted.
MaxPolls == 3

Runs == 1..MaxRuns

\* The value of the artifact yielded for a FinishPromptEvent.
Newline == "\n"

VARIABLES
    queue,       \* Stream._event_queue: FIFO of events, shared by every run
    listeners,   \* structure.event_listeners: the listeners, in registration order
    pc,          \* pc[r]: where the generator of invocation r stands
    ppc,         \* ppc[r]: where the producer thread of invocation r stands
    yielded,     \* yielded[r]: the values of the TextArtifacts r has yielded
    emitted,     \* history: the events structure.run of r has published
    taken,       \* history: the events r's consumer got from the queue
    pre,         \* history: the listeners registered when r was invoked
    alone,       \* history: no producer thread but r's has run since r was invoked
    nemit        \* number of events published so far

svars == <<queue, listeners, pc, ppc, yielded, emitted, taken, pre, alone, nemit>>

\* AmazonRedshiftSqlDriver: one construction, then one execute_query.
VARIABLES
    rpc,                 \* where the driver's caller stands
    cluster_identifier,  \* the driver's field
    workgroup_name,      \* the driver's field
    response,            \* execute_query_raw: the execute_statement response
    statement,           \* execute_query_raw: the last describe_statement response
    statement_result,    \* execute_query_raw: the last get_statement_result response
    results,             \* execute_query_raw: the records gathered
    raw,                 \* what execute_query_raw returned
    ret,                 \* what execute_query returned
    polls,               \* history: describe_statement calls made (it stops counting at MaxPolls)
    ngets,               \* history: get_statement_result calls made
    served               \* history: the records of the pages served, in page order

rvars == <<rpc, cluster_identifier, workgroup_name, response, statement, statement_result,
           results, raw, ret, polls, ngets, served>>

\* AmazonBedrockImageGenerationDriver: one try_generate_image.
VARIABLES
    bpc,              \* where try_generate_image stands
    prompts,          \* try_generate_image: the prompts argument
    negative_prompts, \* try_generate_image: the negative_prompts argument
    invoke_response,  \* try_generate_image: what invoke_model returned
    response_body,    \* try_generate_image: the decoded body
    image_bytes,      \* try_generate_image: what get_generated_image returned
    outcome           \* what the caller receives: the ImageArtifact or the exception

bvars == <<bpc, prompts, negative_prompts, invoke_response, response_body, image_bytes, outcome>>

\* ImageGenerationEngine: a caller that holds a prompts list, and maybe a
\* negative prompts list, and passes them to the engine's operations.
VARIABLES
    epc,               \* where the engine's caller stands
    lists,             \* the list objects the caller holds: lists[id] is the content
    caller_negative,   \* the negative_prompts the caller passes: None or its list
    rulesets,          \* the rulesets the caller passes: None or a list of rulesets
    negative_rulesets, \* the negative_rulesets the caller passes
    orig_prompts,      \* history: the caller's prompts before the first call
    orig_negative,     \* history: the caller's negative prompts before the first call
    ncalls,            \* number of calls made
    driver_call,       \* the image driver's method last called, and its arguments
    eret               \* what the last call gave the caller

evars == <<epc, lists, caller_negative, rulesets, negative_rulesets, orig_prompts,
           orig_negative, ncalls, driver_call, eret>>

vars == <<svars, rvars, bvars, evars>>

\* What the steps of the Stream, of the drivers and of the engine leave alone.
notStream == <<rvars, bvars, evars>>
notRedshift == <<svars, bvars, evars>>
notBedrock == <<svars, rvars, evars>>
notEngine == <<svars, rvars, bvars>>

\* ------------------------------------------------------------------ events
\* The code never looks into a token, so the chunk published as the k-th
\* event carries the text "k": every chunk is told apart from every other.
ChunkEvent(k) == [kind |-> "Chunk", token |-> ToString(k)]
FinishPromptEvent == [kind |-> "FinishPrompt"]
FinishStructureRunEvent == [kind |-> "FinishRun"]
\* Any event of another type (StartPromptEvent, StartTaskEvent, ...).
OtherEvent == [kind |-> "Other"]

\* The events the structure may publish as its k-th.
Events(k) == {ChunkEvent(k), FinishPromptEvent, FinishStructureRunEvent, OtherEvent}

\* event_types of the EventListener _run_structure creates.
EventTypes == {"Chunk", "FinishPrompt", "FinishRun"}

\* event_handler of the listener of invocation l: put the event on the queue.
\* The entry remembers the listener it came through (via).
event_handler(q, l, e) == Append(q, e @@ [via |-> l])

\* The structure publishes e: every registered listener whose event_types
\* hold e's type gets it, in registration order.
RECURSIVE publish_event(_, _, _)
publish_event(q, ls, e) ==
    IF ls = <<>> THEN q
    ELSE publish_event(IF e.kind \in EventTypes THEN event_handler(q, Head(ls), e) ELSE q,
                       Tail(ls), e)

\* Structure.add_event_listener and Structure.remove_event_listener, by the
\* interface the Stream consumes: a listener is registered once, and removed
\* by its handle.
add_event_listener(ls, l) == IF \E i \in DOMAIN ls : ls[i] = l THEN ls ELSE Append(ls, l)

remove_event_listener(ls, l) == SelectSeq(ls, LAMBDA x : x # l)

\* ------------------------------------------------------------------ helpers
ThreadEnded(r) == ppc[r] \in {"returned", "raised"}

ThreadRuns(r) == ppc[r] \in {"add", "run", "remove"}

HasFinished(es) == \E i \in DOMAIN es : es[i].kind = "FinishRun"

\* ------------------------------------------------------------------ Init
SInit ==
    /\ queue = <<>>
    /\ listeners = <<>>
    /\ pc = [r \in Runs |-> "idle"]
    /\ ppc = [r \in Runs |-> "none"]
    /\ yielded = [r \in Runs |-> <<>>]
    /\ emitted = [r \in Runs |-> <<>>]
    /\ taken = [r \in Runs |-> <<>>]
    /\ pre = [r \in Runs |-> <<>>]
    /\ alone = [r \in Runs |-> TRUE]
    /\ nemit = 0

\* ------------------------------------------------------------------ Stream.run
\* The first next() on the generator: t = Thread(...); t.start(), and the
\* consumer goes to its first _event_queue.get().  One caller thread makes
\* the invocations: it makes the next one when the generator of the last one
\* has ended or when it has stopped iterating it.
RunStart(r) ==
    /\ pc[r] = "idle"
    /\ \A s \in Runs : s < r => pc[s] \in {"done", "abandoned"}
    /\ pc' = [pc EXCEPT ![r] = "get"]
    /\ ppc' = [ppc EXCEPT ![r] = "add"]
    /\ pre' = [pre EXCEPT ![r] = listeners]
    /\ alone' = [s \in Runs |-> s = r /\ \A o \in Runs : ~ThreadRuns(o)]
    /\ UNCHANGED <<queue, listeners, yielded, emitted, taken, nemit, notStream>>

\* RunNextPc without the break on FinishStructureRunEvent.
RunNextPcNoBreak(event) == "get"

\* RunOutput with the FinishPromptEvent branch yielding nothing.
RunOutputNoNewline(event) ==
    IF event.kind = "Chunk" THEN <<event.token>> ELSE <<>>

\* What one pass of the while loop does with the event it got: the
\* generator's next position ("join": break; "get": the next pass, after the
\* yield if there is one) and what it yields (<<>>: nothing).
RunNextPc(event) ==
    IF event.kind = "FinishRun" THEN "join"
    ELSE "get"

RunOutput(event) ==
    IF event.kind = "FinishRun" THEN <<>>
    ELSE IF event.kind = "FinishPrompt" THEN <<Newline>>
    ELSE IF event.kind = "Chunk" THEN <<event.token>>
    ELSE <<>>

\* event = self._event_queue.get() and the branch taken on it.
RunGet(r) ==
    /\ pc[r] = "get"
    /\ queue # <<>>
    /\ LET event == Head(queue) IN
        /\ queue' = Tail(queue)
        /\ taken' = [taken EXCEPT ![r] = Append(@, event)]
        /\ yielded' = [yielded EXCEPT ![r] = @ \o RunOutput(event)]
        /\ pc' = [pc EXCEPT ![r] = RunNextPc(event)]
    /\ UNCHANGED <<listeners, ppc, emitted, pre, alone, nemit, notStream>>

\* The caller stops iterating: the generator stays suspended at the yield
\* that gave it its last item.
RunAbandon(r) ==
    /\ pc[r] = "get"
    /\ yielded[r] # <<>>
    /\ pc' = [pc EXCEPT ![r] = "abandoned"]
    /\ UNCHANGED <<queue, listeners, ppc, yielded, emitted, taken, pre, alone, nemit, notStream>>

\* t.join() returns once the producer thread has ended; the generator ends.
RunJoin(r) ==
    /\ pc[r] = "join"
    /\ ThreadEnded(r)
    /\ pc' = [pc EXCEPT ![r] = "done"]
    /\ UNCHANGED <<queue, listeners, ppc, yielded, emitted, taken, pre, alone, nemit, notStream>>

\* ------------------------------------------------------------------ Stream._run_structure
\* self.structure.add_event_listener(stream_event_listener)
AddListener(r) ==
    /\ ppc[r] = "add"
    /\ listeners' = add_event_listener(listeners, r)
    /\ ppc' = [ppc EXCEPT ![r] = "run"]
    /\ UNCHANGED <<queue, pc, yielded, emitted, taken, pre, alone, nemit, notStream>>

\* Inside self.structure.run(*args): the structure publishes an event.
\* A FinishStructureRunEvent is the last event of a run.  The queue entry
\* remembers the run that published it (src) and its number (seq).
StructureEmit(r, e) ==
    /\ ppc[r] = "run"
    /\ ~HasFinished(emitted[r])
    /\ nemit < MaxEmit
    /\ nemit' = nemit + 1
    /\ emitted' = [emitted EXCEPT ![r] = Append(@, e)]
    /\ queue' = publish_event(queue, listeners, e @@ [src |-> r, seq |-> nemit + 1])
    /\ UNCHANGED <<listeners, pc, ppc, yielded, taken, pre, alone, notStream>>

\* self.structure.run(*args) returns, after its FinishStructureRunEvent.
StructureReturn(r) ==
    /\ ppc[r] = "run"
    /\ HasFinished(emitted[r])
    /\ ppc' = [ppc EXCEPT ![r] = "remove"]
    /\ UNCHANGED <<queue, listeners, pc, yielded, emitted, taken, pre, alone, nemit, notStream>>

\* self.structure.run(*args) raises: nothing catches the exception in
\* _run_structure, the thread ends with it.
StructureRaise(r) ==
    /\ ppc[r] = "run"
    /\ ppc' = [ppc EXCEPT ![r] = "raised"]
    /\ UNCHANGED <<queue, listeners, pc, yielded, emitted, taken, pre, alone, nemit, notStream>>

\* self.structure.remove_event_listener(stream_event_listener); the thread ends.
RemoveListener(r) ==
    /\ ppc[r] = "remove"
    /\ listeners' = remove_event_listener(listeners, r)
    /\ ppc' = [ppc EXCEPT ![r] = "returned"]
    /\ UNCHANGED <<queue, pc, yielded, emitted, taken, pre, alone, nemit, notStream>>

\* ------------------------------------------------------------------ specification
\* ================================================================== AmazonRedshiftSqlDriver
\* ------------------------------------------------------------------ Python values
None == [tag |-> "None"]
Str(s) == [tag |-> "str", s |-> s]
List(xs) == [tag |-> "list", items |-> xs]

\* The truth value of v in `if v:` and `not v`: None, "" and [] are false.
Truthy(v) ==
    IF v.tag = "None" THEN FALSE
    ELSE IF v.tag = "str" THEN v.s # ""
    ELSE v.items # <<>>

\* d.get(k, default)
DictGet(d, k, default) == IF k \in DOMAIN d THEN d[k] ELSE default

SeqsUpTo(S, n) == UNION {[1..k -> S] : k \in 0..n}

\* ------------------------------------------------------------------ the vendor
\* What the caller may pass for cluster_identifier and workgroup_name.
Identifiers == {None, Str(""), Str("x")}

Statuses == {"SUBMITTED", "PICKED", "STARTED", "FINISHED", "FAILED", "ABORTED"}

\* The result has the columns id and name; a record is a list of cells, a
\* cell a dict of one entry, its key the type of the value.
ColumnMetadata == <<[name |-> "id"], [name |-> "name"]>>

Rows == {<<[longValue |-> n], [stringValue |-> "a"]>> : n \in {"1", "2"}}

\* A get_statement_result response: NextToken is there when a page follows.
Page(recs, more) ==
    IF more THEN [Records |-> recs, ColumnMetadata |-> ColumnMetadata, NextToken |-> "next"]
    ELSE [Records |-> recs, ColumnMetadata |-> ColumnMetadata]

\* ------------------------------------------------------------------ the driver
\* validate_params without its second branch.
validate_params_neither_only(c, w) ==
    IF ~Truthy(c) /\ ~Truthy(w) THEN "ValueError" ELSE "ok"

\* The validator of workgroup_name, run by __init__: "ValueError" when it raises.
validate_params(c, w) ==
    IF ~Truthy(c) /\ ~Truthy(w) THEN "ValueError"
    ELSE IF Truthy(c) /\ Truthy(w) THEN "ValueError"
    ELSE "ok"

process_rows_from_records(records) ==
    [i \in DOMAIN records |->
        [j \in DOMAIN records[i] |-> records[i][j][CHOOSE k \in DOMAIN records[i][j] : TRUE]]]

process_columns_from_column_metadata(meta) == [i \in DOMAIN meta |-> meta[i].name]

\* One dict per row; a column named twice keeps the cell of its last place.
process_cells_from_rows_and_columns(columns, rows) ==
    [i \in DOMAIN rows |->
        [c \in {columns[j] : j \in DOMAIN columns} |->
            LET last == CHOOSE j \in DOMAIN columns :
                            columns[j] = c /\ \A k \in DOMAIN columns : columns[k] = c => k <= j
            IN rows[i][last]]]

post_process(meta, records) ==
    process_cells_from_rows_and_columns(process_columns_from_column_metadata(meta),
                                        process_rows_from_records(records))

RowResult(row) == [cells |-> row]

\* execute_query, after execute_query_raw has returned rows.
execute_query_result(rows) ==
    IF Truthy(rows) THEN List([i \in DOMAIN rows.items |-> RowResult(rows.items[i])])
    ELSE None

\* The statuses in which the while loop polls again.
PollingUnlessPicked(status) == status \in {"SUBMITTED", "STARTED"}

Polling(status) == status \in {"SUBMITTED", "PICKED", "STARTED"}

\* The if branch that fetches the result, with FAILED taken for a result too.
FetchesResultOrFailed(status) == status \in {"FINISHED", "FAILED"}

\* The status in which the if branch fetches the result.
FetchesResult(status) == status = "FINISHED"

\* The statuses of the elif branch, which returns None.
ReturnsNone(status) == status \in {"FAILED", "ABORTED"}

RInit ==
    /\ rpc = "new"
    /\ cluster_identifier = None
    /\ workgroup_name = None
    /\ response = None
    /\ statement = None
    /\ statement_result = None
    /\ results = <<>>
    /\ raw = None
    /\ ret = None
    /\ polls = 0
    /\ ngets = 0
    /\ served = <<>>

\* AmazonRedshiftSqlDriver(cluster_identifier=c, workgroup_name=w, ...)
Construct(c, w) ==
    /\ rpc = "new"
    /\ cluster_identifier' = c
    /\ workgroup_name' = w
    /\ rpc' = IF validate_params(c, w) = "ValueError" THEN "ValueError" ELSE "constructed"
    /\ UNCHANGED <<response, statement, statement_result, results, raw, ret, polls, ngets,
                   served, notRedshift>>

CountPoll == IF polls < MaxPolls THEN polls + 1 ELSE polls

\* execute_query calls execute_query_raw: execute_statement, then the first
\* describe_statement, which reports the status st.
ExecuteStatement(st) ==
    /\ rpc = "constructed"
    /\ response' = [Id |-> "id"]
    /\ statement' = [Status |-> st]
    /\ polls' = CountPoll
    /\ rpc' = "described"
    /\ UNCHANGED <<cluster_identifier, workgroup_name, statement_result, results, raw, ret,
                   ngets, served, notRedshift>>

\* One pass of the while loop: sleep, then describe_statement reports st.
Poll(st) ==
    /\ rpc = "described"
    /\ Polling(statement.Status)
    /\ statement' = [Status |-> st]
    /\ polls' = CountPoll
    /\ UNCHANGED <<rpc, cluster_identifier, workgroup_name, response, statement_result,
                   results, raw, ret, ngets, served, notRedshift>>

\* The first get_statement_result; the vendor serves a page of records recs.
GetStatementResult(recs, more) ==
    /\ rpc = "described"
    /\ ~Polling(statement.Status)
    /\ FetchesResult(statement.Status)
    /\ more => ngets + 1 < MaxPages
    /\ statement_result' = Page(recs, more)
    /\ results' = DictGet(statement_result', "Records", <<>>)
    /\ ngets' = ngets + 1
    /\ served' = served \o recs
    /\ rpc' = "paging"
    /\ UNCHANGED <<cluster_identifier, workgroup_name, response, statement, raw, ret, polls,
                   notRedshift>>

\* One pass of the while "NextToken" in statement_result loop.
GetNextStatementResult(recs, more) ==
    /\ rpc = "paging"
    /\ "NextToken" \in DOMAIN statement_result
    /\ more => ngets + 1 < MaxPages
    /\ statement_result' = Page(recs, more)
    /\ results' = results \o DictGet(response, "Records", <<>>)
    /\ ngets' = ngets + 1
    /\ served' = served \o recs
    /\ UNCHANGED <<rpc, cluster_identifier, workgroup_name, response, statement, raw, ret,
                   polls, notRedshift>>

\* return self._post_process(...), and execute_query's return.
ReturnRows ==
    /\ rpc = "paging"
    /\ "NextToken" \notin DOMAIN statement_result
    /\ raw' = List(post_process(statement_result.ColumnMetadata, results))
    /\ ret' = execute_query_result(raw')
    /\ rpc' = "returned"
    /\ UNCHANGED <<cluster_identifier, workgroup_name, response, statement, statement_result,
                   results, polls, ngets, served, notRedshift>>

\* The elif branch: return None, and execute_query's return.
ReturnNone ==
    /\ rpc = "described"
    /\ ~Polling(statement.Status)
    /\ ~FetchesResult(statement.Status)
    /\ ReturnsNone(statement.Status)
    /\ raw' = None
    /\ ret' = execute_query_result(raw')
    /\ rpc' = "returned"
    /\ UNCHANGED <<cluster_identifier, workgroup_name, response, statement, statement_result,
                   results, polls, ngets, served, notRedshift>>

RNext ==
    \/ \E c \in Identifiers, w \in Identifiers : Construct(c, w)
    \/ \E st \in Statuses : ExecuteStatement(st)
    \/ \E st \in Statuses : Poll(st)
    \/ \E recs \in SeqsUpTo(Rows, MaxRecs), more \in BOOLEAN : GetStatementResult(recs, more)
    \/ \E recs \in SeqsUpTo(Rows, MaxRecs), more \in BOOLEAN : GetNextStatementResult(recs, more)
    \/ ReturnRows
    \/ ReturnNone

\* ================================================================== AmazonBedrockImageGenerationDriver
\* Number of prompts, and of negative prompts, given to try_generate_image.
MaxPrompts == 2

\* The driver's fields.
image_width == 512
image_height == 512
model == "stability.stable-diffusion-xl-v1"

PromptLists == SeqsUpTo({"a", "b"}, MaxPrompts)
NegativePromptLists == {None} \cup {List(xs) : xs \in SeqsUpTo({"n"}, MaxPrompts)}

\* ", ".join(prompts)
RECURSIVE join(_, _)
join(sep, xs) ==
    IF xs = <<>> THEN ""
    ELSE IF Len(xs) = 1 THEN xs[1]
    ELSE xs[1] \o sep \o join(sep, Tail(xs))

\* What the Bedrock runtime can answer to invoke_model: it raises, or it
\* returns a response whose body is JSON holding an image, JSON holding
\* none, or no JSON at all.
ClientError == [type |-> "ClientError", message |-> <<"throttled">>]
JsonBody(artifacts) == [kind |-> "json", artifacts |-> artifacts]
TextBody == [kind |-> "text"]
Bodies == {JsonBody(<<"image data">>), JsonBody(<<>>), TextBody}
Raised(e) == [raised |-> TRUE, exception |-> e]
Returned(v) == [raised |-> FALSE, value |-> v]
InvokeOutcomes == {Raised(ClientError)} \cup {Returned([body |-> b]) : b \in Bodies}

\* json.loads(response.get("body").read())
json_loads(body) ==
    IF body.kind = "json" THEN Returned([artifacts |-> body.artifacts])
    ELSE Raised([type |-> "JSONDecodeError", message |-> <<"Expecting value">>])

\* image_generation_model_driver.get_generated_image(response_body)
get_generated_image(body) ==
    IF body.artifacts # <<>> THEN Returned(body.artifacts[1])
    ELSE Raised([type |-> "Exception", message |-> <<"no image in the response">>])

\* ValueError(f"Image generation failed: {e}")
ImageGenerationFailed(e) ==
    [type |-> "ValueError", message |-> <<"Image generation failed: ">> \o e.message]

\* An exception that leaves a call as it was raised.
Unwrapped(e) == e

ImageArtifact(ps, value) ==
    [type |-> "ImageArtifact", prompt |-> join(", ", ps), value |-> value,
     mime_type |-> "image/png", width |-> image_width, height |-> image_height,
     model |-> model]

BInit ==
    /\ bpc = "idle"
    /\ prompts = <<>>
    /\ negative_prompts = None
    /\ invoke_response = None
    /\ response_body = None
    /\ image_bytes = None
    /\ outcome = None

\* The caller calls try_generate_image; the request is built.
TextToImageRequestParameters(ps, ns) ==
    /\ bpc = "idle"
    /\ prompts' = ps
    /\ negative_prompts' = ns
    /\ bpc' = "request"
    /\ UNCHANGED <<invoke_response, response_body, image_bytes, outcome, notBedrock>>

\* bedrock_client.invoke_model(...): what it raises leaves try_generate_image.
InvokeModel(out) ==
    /\ bpc = "request"
    /\ IF out.raised
       THEN /\ outcome' = Unwrapped(out.exception)
            /\ bpc' = "raised"
            /\ UNCHANGED invoke_response
       ELSE /\ invoke_response' = out.value
            /\ bpc' = "invoked"
            /\ UNCHANGED outcome
    /\ UNCHANGED <<prompts, negative_prompts, response_body, image_bytes, notBedrock>>

\* response_body = json.loads(response.get("body").read())
LoadResponseBody ==
    /\ bpc = "invoked"
    /\ LET out == json_loads(invoke_response.body)
       IN  IF out.raised
           THEN /\ outcome' = Unwrapped(out.exception)
                /\ bpc' = "raised"
                /\ UNCHANGED response_body
           ELSE /\ response_body' = out.value
                /\ bpc' = "decoded"
                /\ UNCHANGED outcome
    /\ UNCHANGED <<prompts, negative_prompts, invoke_response, image_bytes, notBedrock>>

\* try: image_bytes = get_generated_image(response_body)
\* except Exception as e: raise ValueError(...)
GetGeneratedImage ==
    /\ bpc = "decoded"
    /\ LET out == get_generated_image(response_body)
       IN  IF out.raised
           THEN /\ outcome' = ImageGenerationFailed(out.exception)
                /\ bpc' = "raised"
                /\ UNCHANGED image_bytes
           ELSE /\ image_bytes' = out.value
                /\ bpc' = "extracted"
                /\ UNCHANGED outcome
    /\ UNCHANGED <<prompts, negative_prompts, invoke_response, response_body, notBedrock>>

ReturnImageArtifact ==
    /\ bpc = "extracted"
    /\ outcome' = ImageArtifact(prompts, image_bytes)
    /\ bpc' = "returned"
    /\ UNCHANGED <<prompts, negative_prompts, invoke_response, response_body, image_bytes,
                   notBedrock>>

BNext ==
    \/ \E ps \in PromptLists, ns \in NegativePromptLists : TextToImageRequestParameters(ps, ns)
    \/ \E out \in InvokeOutcomes : InvokeModel(out)
    \/ LoadResponseBody
    \/ GetGeneratedImage
    \/ ReturnImageArtifact

\* ================================================================== ImageGenerationEngine
\* Number of calls of the engine's operations with the same arguments.
MaxCalls == 2
\* Number of rulesets in rulesets, and in negative_rulesets.
MaxRulesets == 2

\* A reference to a list object; the caller's two lists.
Ref(id) == [tag |-> "ref", id |-> id]
PromptsRef == Ref("prompts")
NegativeRef == Ref("negative_prompts")
\* The list that "negative_prompts = []" creates in a call.
NewRef == Ref("new")

Rule(v) == [value |-> v]
Ruleset(rules) == [rules |-> rules]
Rulesets == {Ruleset(<<Rule("r")>>), Ruleset(<<Rule("s"), Rule("t")>>)}
NegativeRulesets == {Ruleset(<<Rule("x")>>)}
RulesetArgs(S) == {None} \cup {List(rss) : rss \in SeqsUpTo(S, MaxRulesets)}

\* The four operations and the driver method each one calls.
Operations == {"text_to_image", "image_variation", "image_inpainting", "image_outpainting"}
DriverMethod(op) ==
    CASE op = "text_to_image" -> "try_text_to_image"
      [] op = "image_variation" -> "try_image_variation"
      [] op = "image_inpainting" -> "try_inpainting"
      [] op = "image_outpainting" -> "try_outpainting"

\* The content of what v refers to, as Python's truth test sees it.
Deref(h, v) == IF v = None THEN None ELSE List(h[v.id])

\* [rule.value for rule in ruleset.rules]
rule_values(ruleset) == [i \in DOMAIN ruleset.rules |-> ruleset.rules[i].value]

\* "xs = xs + ys" would build a new list and leave the object alone.
plus_new_list(h, ref, ys) == h

\* "xs += ys" on a list extends the object xs refers to.
iadd(h, ref, ys) == [h EXCEPT ![ref.id] = @ \o ys]

\* for ruleset in rulesets: xs += [rule.value for rule in ruleset.rules]
RECURSIVE extend_with_rules(_, _, _)
extend_with_rules(h, ref, rss) ==
    IF rss = <<>> THEN h
    ELSE extend_with_rules(iadd(h, ref, rule_values(Head(rss))), ref, Tail(rss))

\* The body the four operations share, up to the call of the driver: the
\* list objects afterwards and the two references the driver is given.
engine_body(h, ps, ns, rs, nrs) ==
    LET fresh == ~Truthy(Deref(h, ns))
        h1 == IF fresh THEN (NewRef.id :> <<>>) @@ h ELSE h
        ns1 == IF fresh THEN NewRef ELSE ns
        h2 == IF rs # None THEN extend_with_rules(h1, ps, rs.items) ELSE h1
        h3 == IF nrs # None THEN extend_with_rules(h2, ns1, nrs.items) ELSE h2
    IN  [lists |-> h3, prompts |-> ps, negative_prompts |-> ns1]

EInit ==
    /\ epc = "idle"
    /\ lists = <<>>
    /\ caller_negative = None
    /\ rulesets = None
    /\ negative_rulesets = None
    /\ orig_prompts = <<>>
    /\ orig_negative = None
    /\ ncalls = 0
    /\ driver_call = None
    /\ eret = None

\* The caller builds its lists and its rulesets.
CallerSetup(ps, ns, rs, nrs) ==
    /\ epc = "idle"
    /\ lists' = IF ns = None THEN (PromptsRef.id :> ps)
                ELSE (PromptsRef.id :> ps) @@ (NegativeRef.id :> ns.items)
    /\ caller_negative' = IF ns = None THEN None ELSE NegativeRef
    /\ rulesets' = rs
    /\ negative_rulesets' = nrs
    /\ orig_prompts' = ps
    /\ orig_negative' = ns
    /\ epc' = "ready"
    /\ UNCHANGED <<ncalls, driver_call, eret, notEngine>>

\* One call of an operation with the caller's lists and rulesets; the image
\* driver returns an artifact or raises.
EngineCall(op, raises) ==
    /\ epc = "ready"
    /\ ncalls < MaxCalls
    /\ LET b == engine_body(lists, PromptsRef, caller_negative, rulesets, negative_rulesets)
       IN  /\ driver_call' = [method |-> DriverMethod(op),
                              prompts |-> b.lists[b.prompts.id],
                              negative_prompts |-> b.lists[b.negative_prompts.id]]
           /\ lists' = [id \in DOMAIN lists |-> b.lists[id]]
    /\ eret' = IF raises THEN "raised" ELSE "ImageArtifact"
    /\ ncalls' = ncalls + 1
    /\ UNCHANGED <<epc, caller_negative, rulesets, negative_rulesets, orig_prompts,
                   orig_negative, notEngine>>

ENext ==
    \/ \E ps \in SeqsUpTo({"p"}, MaxPrompts), ns \in NegativePromptLists,
          rs \in RulesetArgs(Rulesets), nrs \in RulesetArgs(NegativeRulesets) :
            CallerSetup(ps, ns, rs, nrs)
    \/ \E op \in Operations, raises \in BOOLEAN : EngineCall(op, raises)

Init == SInit /\ RInit /\ BInit /\ EInit

EngineSpec == Init /\ [][ENext]_vars

BedrockSpec == Init /\ [][BNext]_vars

RedshiftSpec == Init /\ [][RNext]_vars

\* The driver's thread is scheduled and the Data API answers every call: a
\* pass of the polling loop, a fetch of a page and a return that can happen
\* do happen.  Nothing makes the API report a status that ends the polling.
RedshiftFair ==
    /\ WF_vars(\E st \in Statuses : Poll(st))
    /\ WF_vars(\E recs \in SeqsUpTo(Rows, MaxRecs), more \in BOOLEAN : GetStatementResult(recs, more))
    /\ WF_vars(\E recs \in SeqsUpTo(Rows, MaxRecs), more \in BOOLEAN :
                   GetNextStatementResult(recs, more))
    /\ WF_vars(ReturnRows)
    /\ WF_vars(ReturnNone)

RedshiftLive == Init /\ [][RNext]_vars /\ RedshiftFair

\* ================================================================== specifications
SNext ==
    \/ \E r \in Runs : RunStart(r)
    \/ \E r \in Runs : RunGet(r)
    \/ \E r \in Runs : RunAbandon(r)
    \/ \E r \in Runs : RunJoin(r)
    \/ \E r \in Runs : AddListener(r)
    \/ \E r \in Runs : \E e \in Events(nemit + 1) : StructureEmit(r, e)
    \/ \E r \in Runs : StructureReturn(r)
    \/ \E r \in Runs : StructureRaise(r)
    \/ \E r \in Runs : RemoveListener(r)

StreamSpec == Init /\ [][SNext]_vars

\* The threads are scheduled: a consumer that can take an event or whose
\* join can return does so, a producer thread takes its next step, and a
\* structure.run that can go on does (it publishes, returns or raises).
\* Nothing makes the caller invoke run again or stop iterating.
StructureStep(r) ==
    \/ \E e \in Events(nemit + 1) : StructureEmit(r, e)
    \/ StructureReturn(r)
    \/ StructureRaise(r)

StreamFair ==
    \A r \in Runs :
        /\ WF_vars(RunGet(r))
        /\ WF_vars(RunJoin(r))
        /\ WF_vars(AddListener(r))
        /\ WF_vars(StructureStep(r))
        /\ WF_vars(RemoveListener(r))

StreamLive == Init /\ [][SNext]_vars /\ StreamFair

\* ------------------------------------------------------------------ Stream: claims
IsPrefix(s, t) == Len(s) <= Len(t) /\ \A i \in DOMAIN s : s[i] = t[i]

\* es is N >= 0 CompletionChunkEvents followed by one FinishStructureRunEvent.
ChunksThenFinish(es) ==
    /\ es # <<>>
    /\ es[Len(es)].kind = "FinishRun"
    /\ \A i \in 1..(Len(es) - 1) : es[i].kind = "Chunk"

ChunkTokens(es) == [i \in 1..(Len(es) - 1) |-> es[i].token]

\* C1: when the structure.run of an invocation has published N chunks and
\* then its FinishStructureRunEvent, the invocation yields the N tokens in
\* order: never anything but a prefix of them, and all of them once its
\* loop has ended.
C1_ChunksYieldedInOrder ==
    \A r \in Runs :
        ChunksThenFinish(emitted[r]) =>
            /\ IsPrefix(yielded[r], ChunkTokens(emitted[r]))
            /\ pc[r] \in {"join", "done"} => yielded[r] = ChunkTokens(emitted[r])

\* C2: once the producer thread of an invocation has ended, by a return or
\* by an exception of structure.run, the listeners of the structure are
\* those registered when the invocation was made (no other invocation's
\* producer having run since).
C2_ListenersRestored ==
    \A r \in Runs : (ThreadEnded(r) /\ alone[r]) => listeners = pre[r]

\* C3: an invocation whose consumer waits on the queue eventually ends
\* (having taken a FinishStructureRunEvent), unless its caller stops
\* iterating.
C3_FinishEventuallyTaken ==
    \A r \in Runs : (pc[r] = "get") ~> (pc[r] \in {"done", "abandoned"})

\* C4: an invocation never takes and yields an event that the structure.run
\* of another invocation published and the listener of another invocation
\* enqueued.
C4_NoForeignEvent ==
    \A r \in Runs : \A i \in DOMAIN taken[r] :
        taken[r][i].kind # "FinishRun" => (taken[r][i].src = r \/ taken[r][i].via = r)

\* C5: once an invocation has taken a FinishStructureRunEvent, no step
\* adds to what it has yielded.
C5_NothingAfterFinish ==
    [][\A r \in Runs : HasFinished(taken[r]) => yielded'[r] = yielded[r]]_vars

\* An invocation has ended on its FinishStructureRunEvent and events
\* published after that one are on the queue.
C5_Witness ==
    \E r \in Runs :
        /\ pc[r] = "done"
        /\ \E i \in DOMAIN taken[r] : \E j \in DOMAIN queue :
            taken[r][i].kind = "FinishRun" /\ queue[j].seq > taken[r][i].seq

\* The number of items due for the first i events of es.
Items(es, i) == Cardinality({j \in 1..i : es[j].kind \in {"Chunk", "FinishPrompt"}})

\* C6: an invocation takes the events in the order of their publication and
\* has yielded one item for each FinishPromptEvent and each chunk it has
\* taken, in that order: a newline for a FinishPromptEvent, the token for a
\* chunk.
C6_NewlinePerFinishPrompt ==
    \A r \in Runs :
        /\ Len(yielded[r]) = Items(taken[r], Len(taken[r]))
        /\ \A i \in DOMAIN taken[r] :
            /\ taken[r][i].kind = "FinishPrompt" => yielded[r][Items(taken[r], i)] = Newline
            /\ taken[r][i].kind = "Chunk" => yielded[r][Items(taken[r], i)] = taken[r][i].token
            /\ \A j \in DOMAIN taken[r] : i < j => taken[r][i].seq <= taken[r][j].seq

\* An invocation has yielded a token, then the newline of a
\* FinishPromptEvent, then the token of a later prompt.
C6_Witness ==
    \E r \in Runs :
        /\ Len(taken[r]) = 3
        /\ taken[r][1].kind = "Chunk"
        /\ taken[r][2].kind = "FinishPrompt"
        /\ taken[r][3].kind = "Chunk"
        /\ yielded[r] = <<taken[r][1].token, Newline, taken[r][3].token>>

\* ------------------------------------------------------------------ Redshift driver: claims
\* The status last reported to execute_query_raw.
Status == IF rpc \in {"described", "paging", "returned"} THEN statement.Status ELSE "none"

\* C7: when the statement has FINISHED, execute_query_raw has made one
\* get_statement_result call per page and returns the records of all the
\* pages served, in page order, as rows.
C7_AllPagesMerged ==
    (rpc = "returned" /\ Status = "FINISHED") =>
        /\ "NextToken" \notin DOMAIN statement_result
        /\ raw = List(post_process(ColumnMetadata, served))

\* C8: execute_query returns something other than None, the value it returns
\* for a FAILED or ABORTED statement, when the statement has FINISHED with
\* no record.
C8_NoRowsIsNotFailure ==
    (rpc = "returned" /\ Status = "FINISHED" /\ served = <<>>) => ret # None

\* C9: with the status FAILED or ABORTED the loop is left, no
\* get_statement_result call is ever made, the call can return, and
\* execute_query_raw and execute_query return None.
C9_FailedReturnsNone ==
    Status \in {"FAILED", "ABORTED"} =>
        /\ ngets = 0
        /\ rpc \in {"described", "returned"}
        /\ rpc = "described" => ENABLED ReturnNone
        /\ rpc = "returned" => (raw = None /\ ret = None)

\* execute_query has returned for a statement that FAILED after polls in
\* other statuses.
C9_Witness ==
    /\ rpc = "returned"
    /\ Status = "FAILED"
    /\ polls >= 3
    /\ ret = None

IsSet(v) == v # None /\ v # Str("")

\* C10: the construction raises ValueError when cluster_identifier and
\* workgroup_name are both set or both unset, and otherwise succeeds; a
\* driver that executes a query has exactly one of them set.
C10_ExactlyOneIdentifier ==
    /\ rpc = "ValueError" => (IsSet(cluster_identifier) <=> IsSet(workgroup_name))
    /\ rpc \notin {"new", "ValueError"} => (IsSet(cluster_identifier) <=> ~IsSet(workgroup_name))

\* The construction has raised for a driver given both identifiers.
C10_Witness ==
    /\ rpc = "ValueError"
    /\ IsSet(cluster_identifier)
    /\ IsSet(workgroup_name)

\* C11: whatever fails in try_generate_image (invoke_model raises, the body
\* cannot be decoded, the model driver cannot extract an image), the caller
\* receives a ValueError whose message starts with "Image generation
\* failed: ", never the underlying exception.
C11_FailuresWrapped ==
    bpc = "raised" =>
        /\ outcome.type = "ValueError"
        /\ Head(outcome.message) = "Image generation failed: "

\* C12: when the iteration of an invocation of Stream.run has ended (the
\* consumer took a FinishStructureRunEvent and its join returned), the
\* producer thread of the invocation has terminated and its listener is no
\* longer registered on the structure.
C12_ProducerGoneAtExhaustion ==
    \A r \in Runs :
        pc[r] = "done" =>
            /\ ThreadEnded(r)
            /\ \A i \in DOMAIN listeners : listeners[i] # r

\* C13: in execute_query_raw, after a describe_statement the loop polls
\* again exactly when the status is SUBMITTED, PICKED or STARTED, however
\* many polls it has made; in such a status it neither fetches a result nor
\* returns; and once the status is another one it goes on to return.  So a
\* status that stays in that set keeps it polling forever.
Pending == {"SUBMITTED", "PICKED", "STARTED"}

C13_PollsWhilePending ==
    /\ [](rpc = "described" =>
            ((ENABLED (\E st \in Statuses : Poll(st))) <=> statement.Status \in Pending))
    /\ [](rpc \in {"paging", "returned"} => statement.Status \notin Pending)
    /\ [][(rpc = "described" /\ statement.Status \in Pending) =>
            (rpc' = "described" /\ ngets' = ngets /\ results' = results /\ raw' = raw)]_vars
    /\ ((rpc = "described" /\ statement.Status \notin Pending) ~> (rpc = "returned"))

\* The loop has polled as often as is counted and the status is still one
\* that makes it poll again.
C13_Witness ==
    /\ rpc = "described"
    /\ statement.Status \in Pending
    /\ polls = MaxPolls

\* C14: after k calls of an engine operation with the same prompts list and
\* the same rulesets, the caller's prompts list holds its original prompts
\* followed by k copies of the rule values in ruleset order, and that is the
\* list the driver was given on the k-th call.  A non-empty negative_prompts
\* list of the caller grows in the same way; an empty or absent one is left
\* as it was, and the driver is given a new list holding the negative rule
\* values once.
RECURSIVE AllRuleValues(_)
AllRuleValues(rs) ==
    IF rs = None \/ rs.items = <<>> THEN <<>>
    ELSE LET first == Head(rs.items).rules
         IN  [i \in DOMAIN first |-> first[i].value] \o AllRuleValues(List(Tail(rs.items)))

RECURSIVE Copies(_, _)
Copies(xs, k) == IF k = 0 THEN <<>> ELSE xs \o Copies(xs, k - 1)

C14_RulesAppendedInPlace ==
    ncalls >= 1 =>
        /\ lists[PromptsRef.id] = orig_prompts \o Copies(AllRuleValues(rulesets), ncalls)
        /\ driver_call.prompts = lists[PromptsRef.id]
        /\ IF Truthy(orig_negative)
           THEN /\ lists[NegativeRef.id] =
                       orig_negative.items \o Copies(AllRuleValues(negative_rulesets), ncalls)
                /\ driver_call.negative_prompts = lists[NegativeRef.id]
           ELSE /\ orig_negative # None => lists[NegativeRef.id] = <<>>
                /\ driver_call.negative_prompts = AllRuleValues(negative_rulesets)

\* Two calls with rulesets and negative rulesets that hold rules, and with a
\* non-empty negative_prompts list.
C14_Witness ==
    /\ ncalls >= 2
    /\ Len(AllRuleValues(rulesets)) >= 2
    /\ AllRuleValues(negative_rulesets) # <<>>
    /\ Truthy(orig_negative)
    /\ orig_prompts # <<>>

====
